---- MODULE Spec2Model ----
(***************************************************************************)
(* faircmd: a token store guarded by one mutex and one condition variable, *)
(* with three interchangeable backends:                                    *)
(*   machine  strict FIFO queue          (include/faircmd_machine.hpp)      *)
(*   split    bag of tokens              (include/faircmd_split.hpp)        *)
(*   hybrid   FIFO queue + stdin pumper + consumption log                   *)
(*                                       (include/faircmd_hybrid.hpp)       *)
(* A token is a std::string, modelled as a sequence of one-character       *)
(* strings.  The mutex is explicit (mtx); a consumer holds it exactly      *)
(* between its Acquire step and the end of its next *Check step.  The      *)
(* producer-side calls hold a lock_guard for their whole body and never    *)
(* block inside it, so each is one step that needs the mutex free.         *)
(***************************************************************************)
EXTENDS Integers, Sequences, FiniteSets, TLC

(* ------------------------------ bounds --------------------------------- *)

\* Longest preload of the sequential harness.
MaxLen == 3

\* Tokens the concurrent harness feeds between two resets.
MaxFed == 2

\* Largest fail budget a harness configures before a wait starts.
MaxFails == 5

\* Largest fail budget the concurrent harness configures.
MaxBudget == 2

\* Number of waits the sequential harness issues.
MaxWaits == 4

\* Number of start/stop calls the lifecycle harness issues.
MaxCalls == 4

\* Characters in, and tokens of, the stream the replay harness feeds.
MaxText == 3

\* Number of feeder threads start_stdin_pumper may spawn in one run.
MaxSpawn == 2

(* ------------------------- program constants --------------------------- *)

\* static std::atomic<int> v{1000}
DefaultFails == 1000

\* ms.count() * 1000000ll
NsPerMs == 1000000

(* ------------------------------ tokens --------------------------------- *)

TokA == <<"a">>

TokB == <<"b">>

TokC == <<"c">>

Tokens == {TokA, TokB, TokC}

Threads == {"t1", "t2"}

Main == "t1"

NoThread == "none"

Backends == {"machine", "split", "hybrid"}

Feeders == 1..MaxSpawn

SeqsUpTo(S, n) == UNION {[1..k -> S] : k \in 0..n}

Range(s) == {s[i] : i \in 1..Len(s)}

Count(s, e) == Cardinality({i \in 1..Len(s) : s[i] = e})

VARIABLES
  mode,            \* which backend the build selected (FAIRCMD_MODE)
  q,               \* detail::q()           ordered store (machine, hybrid)
  bag,             \* detail::bag()         token -> count (split)
  consumed,        \* detail::consumed()    consumption log (hybrid)
  default_fails,   \* detail::default_fails()
  yield_ns,        \* detail::yield_ns()
  mtx,             \* detail::mtx(): the thread holding it, or NoThread
  pc,              \* per consumer thread: where it is in its wait call
  op,              \* per thread: the wait function it is in
  exp,             \* per thread: local exp
  remaining,       \* per thread: local remaining
  misses,          \* history, per thread: budget decrements of the current call
  diag,            \* per thread: what it wrote to std::cerr since its last wait began
  fed,             \* history: token -> occurrences fed since the last reset
  won,             \* history: token -> successful waits since the last reset
  okLog,           \* history: exp of the successful waits since reset/clear
  pumper_running,  \* detail::pumper_running()
  pumper_thread,   \* detail::pumper_thread(): a feeder's id, 0 for nullptr
  fpc,             \* per feeder thread: where it is in the pumper lambda
  fline,           \* per feeder thread: local line
  cin_fail,        \* std::cin has hit end of input (its failbit is set)
  stage,           \* sequential harness: position in the test program
  preloaded,       \* sequential harness: the argument of its preload
  calls            \* sequential harness: the waits issued so far

storeVars == <<q, bag, consumed>>

cfgVars == <<default_fails, yield_ns>>

thVars == <<pc, op, exp, remaining, misses, diag>>

histVars == <<fed, won, okLog>>

pumpVars == <<pumper_running, pumper_thread, fpc, fline, cin_fail>>

harnessVars == <<stage, preloaded, calls>>

vars == <<mode, q, bag, consumed, default_fails, yield_ns, mtx, pc, op, exp,
          remaining, misses, diag, fed, won, okLog, pumper_running,
          pumper_thread, fpc, fline, cin_fail, stage, preloaded, calls>>

(* ------------------------- the stores' helpers ------------------------- *)

\* std::unordered_map<std::string,int> with no entry
EmptyBag == << >>

\* detail::bag()[s]++ : operator[] inserts a zero entry before the increment
BagInc(b, k) ==
  IF k \in DOMAIN b
    THEN [b EXCEPT ![k] = @ + 1]
    ELSE [x \in DOMAIN b \cup {k} |-> IF x = k THEN 1 ELSE b[x]]

\* it != bag().end() && it->second > 0
BagHas(b, k) == k \in DOMAIN b /\ b[k] > 0

\* the entry erased whatever count is left
BagTake_erase(b, k) == [x \in DOMAIN b \ {k} |-> b[x]]

\* the count left as it was
BagTake_keep(b, k) == b

\* the count decremented and the entry left in the map at zero
BagTake_zero(b, k) == [b EXCEPT ![k] = @ - 1]

\* if (--(it->second) == 0) bag().erase(it);
BagTake(b, k) ==
  IF b[k] - 1 = 0
    THEN [x \in DOMAIN b \ {k} |-> b[x]]
    ELSE [b EXCEPT ![k] = @ - 1]

RECURSIVE BagIncAll(_, _)
\* for (auto* s : tokens) detail::bag()[s]++;
BagIncAll(b, items) ==
  IF items = << >> THEN b ELSE BagIncAll(BagInc(b, Head(items)), Tail(items))

\* the expected token anywhere in the store
FrontMatches_any(store, e) == e \in Range(store)

\* q().front() == exp, on a store the caller knows or checks to be non-empty
FrontMatches(store, e) == store # << >> /\ Head(store) = e

\* pop_back() in place of pop_front()
PopFront_back(store) == SubSeq(store, 1, Len(store) - 1)

\* q().pop_front()
PopFront(store) == Tail(store)

\* push_front(s) in place of push_back(s)
RecordConsumed_front(log, s) == <<s>> \o log

\* consumed().push_back(s)
RecordConsumed(log, s) == Append(log, s)

RECURSIVE FindFirst(_, _, _)
\* for (auto it = Q.begin(); it != Q.end(); ++it) if (*it == exp) ...
\* the position of the iterator at which the loop stops, 0 for Q.end()
FindFirst(store, e, i) ==
  IF i > Len(store) THEN 0
  ELSE IF store[i] = e THEN i
  ELSE FindFirst(store, e, i + 1)

\* Q.erase(it): only the match goes, the tokens before it stay
EraseThrough_one(store, i) ==
  SubSeq(store, 1, i - 1) \o SubSeq(store, i + 1, Len(store))

\* Q.erase(Q.begin(), std::next(it)) with it at position i
EraseThrough(store, i) == SubSeq(store, i + 1, Len(store))

\* the token put at the head of the store
PushBack_front(store, s) == <<s>> \o store

\* q().push_back(s) / q().emplace_back(s)
PushBack(store, s) == Append(store, s)

RECURSIVE PushAll(_, _)
\* for (auto* s : tokens) detail::q().emplace_back(s);
PushAll(store, items) ==
  IF items = << >> THEN store
  ELSE PushAll(PushBack(store, Head(items)), Tail(items))

\* --remaining
Decr(r) == r - 1

\* (remaining-- <= 0): the test sees the value before the decrement
Exhausted_late(r) == r < 0

\* (--remaining <= 0), on the decremented value
Exhausted(r) == r <= 0

\* cv().notify_all(): every thread blocked in cv().wait must re-lock and re-check
Woken(p) == [u \in DOMAIN p |-> IF p[u] = "cvwait" THEN "lock" ELSE p[u]]

(* ------------------------- history bookkeeping ------------------------- *)

Tally(m, k) ==
  IF k \in DOMAIN m
    THEN [m EXCEPT ![k] = @ + 1]
    ELSE [x \in DOMAIN m \cup {k} |-> IF x = k THEN 1 ELSE m[x]]

RECURSIVE TallyAll(_, _)
TallyAll(m, items) ==
  IF items = << >> THEN m ELSE TallyAll(Tally(m, Head(items)), Tail(items))

Times(m, k) == IF k \in DOMAIN m THEN m[k] ELSE 0

RECURSIVE Total(_)
Total(m) ==
  IF DOMAIN m = {} THEN 0
  ELSE LET k == CHOOSE x \in DOMAIN m : TRUE
       IN  m[k] + Total([x \in DOMAIN m \ {k} |-> m[x]])

(* ------------------------------- Init ---------------------------------- *)

\* The statics as constructed; the build picks one backend.
InitCommon ==
  /\ mode \in Backends
  /\ q = << >>
  /\ bag = EmptyBag
  /\ consumed = << >>
  /\ default_fails = DefaultFails
  /\ yield_ns = 0
  /\ mtx = NoThread
  /\ pc = [t \in Threads |-> "idle"]
  /\ op = [t \in Threads |-> "none"]
  /\ exp = [t \in Threads |-> << >>]
  /\ remaining = [t \in Threads |-> 0]
  /\ misses = [t \in Threads |-> 0]
  /\ diag = [t \in Threads |-> << >>]
  /\ fed = << >>
  /\ won = << >>
  /\ okLog = << >>
  /\ pumper_running = FALSE
  /\ pumper_thread = 0
  /\ fpc = [f \in Feeders |-> "unborn"]
  /\ fline = [f \in Feeders |-> << >>]
  /\ cin_fail = FALSE
  /\ preloaded = << >>
  /\ calls = << >>

(* ------------------------ producer-side calls -------------------------- *)

\* reset() that clears the store and leaves the consumption log
Reset_nolog ==
  /\ mtx = NoThread
  /\ IF mode = "split"
       THEN bag' = EmptyBag /\ UNCHANGED <<q, consumed>>
       ELSE q' = << >> /\ UNCHANGED <<bag, consumed>>
  /\ pc' = Woken(pc)
  /\ fed' = << >>
  /\ won' = << >>
  /\ okLog' = << >>
  /\ UNCHANGED <<mode, cfgVars, mtx, op, exp, remaining, misses, diag, pumpVars>>

\* reset(): lock_guard; clear the store (and, hybrid, the log); notify_all
Reset ==
  /\ mtx = NoThread
  /\ CASE mode = "machine" -> q' = << >> /\ UNCHANGED <<bag, consumed>>
       [] mode = "split"   -> bag' = EmptyBag /\ UNCHANGED <<q, consumed>>
       [] mode = "hybrid"  -> q' = << >> /\ consumed' = << >> /\ UNCHANGED bag
  /\ pc' = Woken(pc)
  /\ fed' = << >>
  /\ won' = << >>
  /\ okLog' = << >>
  /\ UNCHANGED <<mode, cfgVars, mtx, op, exp, remaining, misses, diag, pumpVars>>

\* set_default_fails(n): an atomic store, no lock
SetDefaultFails(n) ==
  /\ default_fails' = n
  /\ UNCHANGED <<mode, storeVars, yield_ns, mtx, thVars, histVars, pumpVars>>

\* set_yield_sleep(ms): an atomic store, no lock
SetYieldSleep(ms) ==
  /\ yield_ns' = ms * NsPerMs
  /\ UNCHANGED <<mode, storeVars, default_fails, mtx, thVars, histVars, pumpVars>>

\* preload(tokens): lock_guard; append every token in argument order; notify_all
Preload(items) ==
  /\ mtx = NoThread
  /\ IF mode = "split"
       THEN bag' = BagIncAll(bag, items) /\ UNCHANGED q
       ELSE q' = PushAll(q, items) /\ UNCHANGED bag
  /\ pc' = Woken(pc)
  /\ fed' = TallyAll(fed, items)
  /\ UNCHANGED <<mode, consumed, cfgVars, mtx, op, exp, remaining, misses, diag,
                 won, okLog, pumpVars>>

\* push(token) without the notify_all
Push_quiet(tok) ==
  /\ mtx = NoThread
  /\ IF mode = "split"
       THEN bag' = BagInc(bag, tok) /\ UNCHANGED q
       ELSE q' = PushBack(q, tok) /\ UNCHANGED bag
  /\ fed' = Tally(fed, tok)
  /\ UNCHANGED <<mode, consumed, cfgVars, mtx, thVars, won, okLog, pumpVars>>

\* push(token): lock_guard; append one token; notify_all
Push(tok) ==
  /\ mtx = NoThread
  /\ IF mode = "split"
       THEN bag' = BagInc(bag, tok) /\ UNCHANGED q
       ELSE q' = PushBack(q, tok) /\ UNCHANGED bag
  /\ pc' = Woken(pc)
  /\ fed' = Tally(fed, tok)
  /\ UNCHANGED <<mode, consumed, cfgVars, mtx, op, exp, remaining, misses, diag,
                 won, okLog, pumpVars>>

\* snapshot_consumed(): lock_guard; a copy of consumed()
SnapshotConsumed(log) == [i \in 1..Len(log) |-> log[i]]

\* a clear that empties the store along with the log
ClearRecording_all ==
  /\ mode = "hybrid"
  /\ mtx = NoThread
  /\ consumed' = << >>
  /\ q' = << >>
  /\ okLog' = << >>
  /\ UNCHANGED <<mode, bag, cfgVars, mtx, thVars, fed, won, pumpVars>>

\* clear_recording(): lock_guard; consumed().clear()
ClearRecording ==
  /\ mode = "hybrid"
  /\ mtx = NoThread
  /\ consumed' = << >>
  /\ okLog' = << >>
  /\ UNCHANGED <<mode, q, bag, cfgVars, mtx, thVars, fed, won, pumpVars>>

(* --------------------------- the wait calls ---------------------------- *)

WaitOps(m) ==
  IF m = "hybrid" THEN {"WaitForCommand", "WaitForCommandLoose"}
  ELSE {"WaitForCommand"}

\* Entry of a wait: exp = expected; remaining = default_fails().load();
\* next comes the unique_lock's constructor.
Begin(t, o, e) ==
  /\ pc[t] \in {"idle", "returned", "failed"}
  /\ default_fails <= MaxFails
  /\ o \in WaitOps(mode)
  /\ op' = [op EXCEPT ![t] = o]
  /\ exp' = [exp EXCEPT ![t] = e]
  /\ remaining' = [remaining EXCEPT ![t] = default_fails]
  /\ misses' = [misses EXCEPT ![t] = 0]
  /\ diag' = [diag EXCEPT ![t] = << >>]
  /\ pc' = [pc EXCEPT ![t] = "lock"]
  /\ UNCHANGED <<mode, storeVars, cfgVars, mtx, histVars, pumpVars>>

\* unique_lock lk(mtx()) at entry, lk.lock() after a sleep or yield, and the
\* re-lock inside cv().wait once notified
Acquire(t) ==
  /\ pc[t] \in {"lock", "sleep", "yield"}
  /\ mtx = NoThread
  /\ mtx' = t
  /\ pc' = [pc EXCEPT ![t] = "check"]
  /\ UNCHANGED <<mode, storeVars, cfgVars, op, exp, remaining, misses, diag,
                 histVars, pumpVars, harnessVars>>

\* condition_variable::wait may return without a notification
Spurious(t) ==
  /\ pc[t] = "cvwait"
  /\ pc' = [pc EXCEPT ![t] = "lock"]
  /\ UNCHANGED <<mode, storeVars, cfgVars, mtx, op, exp, remaining, misses, diag,
                 histVars, pumpVars, harnessVars>>

\* the pause after a failed attempt taken without lk.unlock()
Leave_held(t, to, notify) ==
  /\ mtx' = (IF to \in {"sleep", "yield"} THEN t ELSE NoThread)
  /\ pc' = [u \in Threads |->
             IF u = t THEN to
             ELSE IF notify THEN Woken(pc)[u] ELSE pc[u]]

\* The end of one pass through the loop body: the thread gives the mutex up
\* (return, throw, lk.unlock() or cv().wait) and, after a removal, notifies.
Leave(t, to, notify) ==
  /\ mtx' = NoThread
  /\ pc' = [u \in Threads |->
             IF u = t THEN to
             ELSE IF notify THEN Woken(pc)[u] ELSE pc[u]]

\* history: the wait of t returned successfully
Success(t) ==
  /\ won' = Tally(won, exp[t])
  /\ okLog' = Append(okLog, exp[t])

\* What a wait does with the lock released after a failed attempt that left
\* budget.  machine, split: ns = yield_ns().load(), read on this pass, then
\* sleep_for(ns) if ns > 0, else std::this_thread::yield().  hybrid:
\* sleep_for(milliseconds(1)), whatever yield_ns holds.
Backoff ==
  IF mode = "hybrid" THEN "sleep"
  ELSE IF yield_ns > 0 THEN "sleep" ELSE "yield"

\* the budget taken from default_fails() again on every failed attempt
Miss_fresh(t, recs) ==
  /\ remaining' = [remaining EXCEPT ![t] = default_fails - misses[t] - 1]
  /\ misses' = [misses EXCEPT ![t] = @ + 1]
  /\ diag' = [diag EXCEPT ![t] =
               IF Exhausted(default_fails - misses[t] - 1) THEN @ \o recs ELSE @]
  /\ Leave(t, IF Exhausted(default_fails - misses[t] - 1)
                THEN "failed" ELSE Backoff, FALSE)

\* if (--remaining <= 0) { write recs to std::cerr; throw ...; } otherwise
\* unlock, sleep or yield, re-lock
Miss(t, recs) ==
  /\ remaining' = [remaining EXCEPT ![t] = Decr(@)]
  /\ misses' = [misses EXCEPT ![t] = @ + 1]
  /\ diag' = [diag EXCEPT ![t] =
               IF Exhausted(Decr(remaining[t])) THEN @ \o recs ELSE @]
  /\ Leave(t, IF Exhausted(Decr(remaining[t])) THEN "failed" ELSE Backoff, FALSE)

\* std::cerr << "[faircmd][ERROR] " << who << " expected " << exp
\*           << " but saw " << q().front() << "; giving up after "
\*           << default_fails().load() << " waits"
MachineDiag(t) ==
  [exp |-> exp[t], saw |-> Head(q), fails |-> default_fails]

\* std::cerr << "[faircmd-split][ERROR] " << who << " expected " << exp
\*           << " but it was not present; giving up after "
\*           << default_fails().load() << " waits"
SplitDiag(t) ==
  [exp |-> exp[t], fails |-> default_fails]

\* an empty store counted as a failed attempt
MachineIdle_polls(t) ==
  /\ Miss(t, << >>)
  /\ UNCHANGED <<q, won, okLog>>

\* cv().wait(lk, []{ return !q().empty(); }) on an empty store: the lock is
\* released and the thread blocks until notified; nothing else changes.
MachineIdle(t) ==
  /\ Leave(t, "cvwait", FALSE)
  /\ UNCHANGED <<q, remaining, misses, diag, won, okLog>>

\* faircmd_machine::WaitForCommand, one pass of while (true)
MachineCheck(t) ==
  /\ mode = "machine"
  /\ pc[t] = "check"
  /\ mtx = t
  /\ IF q = << >> THEN MachineIdle(t)
       ELSE IF FrontMatches(q, exp[t])
       THEN /\ q' = PopFront(q)
            /\ Leave(t, "returned", TRUE)
            /\ Success(t)
            /\ UNCHANGED <<remaining, misses, diag>>
       ELSE /\ Miss(t, <<MachineDiag(t)>>)
            /\ UNCHANGED <<q, won, okLog>>
  /\ UNCHANGED <<mode, bag, consumed, cfgVars, op, exp, fed, pumpVars,
                 harnessVars>>

\* faircmd_split::WaitForCommand, one pass of while (true)
SplitCheck(t) ==
  /\ mode = "split"
  /\ pc[t] = "check"
  /\ mtx = t
  /\ IF BagHas(bag, exp[t])
       THEN /\ bag' = BagTake(bag, exp[t])
            /\ Leave(t, "returned", TRUE)
            /\ Success(t)
            /\ UNCHANGED <<remaining, misses, diag>>
       ELSE /\ Miss(t, <<SplitDiag(t)>>)
            /\ UNCHANGED <<bag, won, okLog>>
  /\ UNCHANGED <<mode, q, consumed, cfgVars, op, exp, fed, pumpVars,
                 harnessVars>>

\* The empty-store branch of the hybrid waits: sleep yield_ns with the lock
\* released when it is positive, cv().wait(lk) otherwise; then continue.
HybridIdle(t) ==
  /\ Leave(t, IF yield_ns > 0 THEN "sleep" ELSE "cvwait", FALSE)
  /\ UNCHANGED <<q, consumed, remaining, misses, diag, won, okLog>>

\* The front fast path of both hybrid waits: pop the front and record it.
HybridTakeFront(t) ==
  /\ q' = PopFront(q)
  /\ consumed' = RecordConsumed(consumed, Head(q))
  /\ Leave(t, "returned", TRUE)
  /\ Success(t)
  /\ UNCHANGED <<remaining, misses, diag>>

\* faircmd_hybrid::WaitForCommand, one pass of while (true); the failure path
\* builds its message in an ostringstream and throws it: std::cerr is not
\* written
HybridCheck(t) ==
  /\ mode = "hybrid"
  /\ op[t] = "WaitForCommand"
  /\ pc[t] = "check"
  /\ mtx = t
  /\ IF FrontMatches(q, exp[t]) THEN HybridTakeFront(t)
     ELSE IF q = << >> THEN HybridIdle(t)
     ELSE /\ Miss(t, << >>)
          /\ UNCHANGED <<q, consumed, won, okLog>>
  /\ UNCHANGED <<mode, bag, cfgVars, op, exp, fed, pumpVars, harnessVars>>

\* detail::erase_up_to_expected_unlocked_record, on a store where the scan
\* stops at position i > 0
EraseUpToExpected(t, i) ==
  /\ q' = EraseThrough(q, i)
  /\ consumed' = RecordConsumed(consumed, q[i])
  /\ Leave(t, "returned", TRUE)
  /\ Success(t)
  /\ UNCHANGED <<remaining, misses, diag>>

\* a loose wait that erases the tokens it scanned when none of them matched
LooseCheck_discard(t) ==
  /\ mode = "hybrid"
  /\ op[t] = "WaitForCommandLoose"
  /\ pc[t] = "check"
  /\ mtx = t
  /\ IF FrontMatches(q, exp[t]) THEN HybridTakeFront(t)
     ELSE IF q # << >> /\ FindFirst(q, exp[t], 1) # 0
       THEN EraseUpToExpected(t, FindFirst(q, exp[t], 1))
     ELSE IF q = << >> THEN HybridIdle(t)
     ELSE /\ Miss(t, << >>)
          /\ q' = << >>
          /\ UNCHANGED <<consumed, won, okLog>>
  /\ UNCHANGED <<mode, bag, cfgVars, op, exp, fed, pumpVars, harnessVars>>

\* faircmd_hybrid::WaitForCommandLoose, one pass of while (true); the failure
\* path throws its message and does not write std::cerr
LooseCheck(t) ==
  /\ mode = "hybrid"
  /\ op[t] = "WaitForCommandLoose"
  /\ pc[t] = "check"
  /\ mtx = t
  /\ IF FrontMatches(q, exp[t]) THEN HybridTakeFront(t)
     ELSE IF q # << >> /\ FindFirst(q, exp[t], 1) # 0
       THEN EraseUpToExpected(t, FindFirst(q, exp[t], 1))
     ELSE IF q = << >> THEN HybridIdle(t)
     ELSE /\ Miss(t, << >>)
          /\ UNCHANGED <<q, consumed, won, okLog>>
  /\ UNCHANGED <<mode, bag, cfgVars, op, exp, fed, pumpVars, harnessVars>>

\* Any step of thread t inside a wait call.
WaitStep(t) ==
  \/ Acquire(t)
  \/ Spurious(t)
  \/ MachineCheck(t)
  \/ SplitCheck(t)
  \/ HybridCheck(t)
  \/ LooseCheck(t)

(* --------------------------- stdin pumper ------------------------------ *)

\* Lines std::getline may deliver; a character is "a", "b" or a blank.
Lines == {<<"a">>, <<" ", "b">>, <<"a", " ", "b">>, << >>}

IsSpace(ch) == ch = " "

RECURSIVE Words(_, _, _)
\* std::istringstream iss(line); while (iss >> tok) ... : the maximal runs of
\* non-blank characters, left to right; cur is the run being read
Words(line, cur, acc) ==
  IF line = << >>
    THEN IF cur = << >> THEN acc ELSE Append(acc, cur)
  ELSE IF IsSpace(Head(line))
    THEN Words(Tail(line), << >>, IF cur = << >> THEN acc ELSE Append(acc, cur))
  ELSE Words(Tail(line), Append(cur, Head(line)), acc)

\* detail::tokenize_and_push_unlocked: q().push_back(tok) for every word
TokenizeAndPush(store, line) == PushAll(store, Words(line, << >>, << >>))

\* a second thread spawned although the flag was already set
StartPumper_respawn ==
  /\ mode = "hybrid"
  /\ \E f \in Feeders :
       /\ fpc[f] = "unborn"
       /\ \A g \in Feeders : g < f => fpc[g] # "unborn"
       /\ fpc' = [fpc EXCEPT ![f] = "loop"]
       /\ pumper_thread' = f
  /\ pumper_running' = TRUE
  /\ UNCHANGED fline
  /\ UNCHANGED <<mode, storeVars, cfgVars, mtx, thVars, histVars, cin_fail>>

\* start_stdin_pumper(), called by the controlling thread: the
\* compare_exchange, the clean-up of a stale handle, and the new std::thread
StartPumper ==
  /\ mode = "hybrid"
  /\ IF pumper_running
       THEN \* compare_exchange_strong fails: already running
            UNCHANGED pumpVars
       ELSE /\ \E f \in Feeders :
                 /\ fpc[f] = "unborn"
                 /\ \A g \in Feeders : g < f => fpc[g] # "unborn"
                 /\ fpc' = [fpc EXCEPT ![f] = "loop"]
                 /\ pumper_thread' = f
            /\ pumper_running' = TRUE
            /\ UNCHANGED fline
  /\ UNCHANGED <<mode, storeVars, cfgVars, mtx, thVars, histVars, cin_fail>>

\* stop_stdin_pumper(): exchange(false); detach and delete the handle. The
\* detached thread runs on.
StopPumper ==
  /\ mode = "hybrid"
  /\ IF ~pumper_running
       THEN UNCHANGED pumpVars
       ELSE /\ pumper_running' = FALSE
            /\ pumper_thread' = 0
            /\ UNCHANGED <<fpc, fline>>
  /\ UNCHANGED <<mode, storeVars, cfgVars, mtx, thVars, histVars, cin_fail>>

\* while (true): the flag is never tested
FeederLoop_blind(f) ==
  /\ fpc[f] = "loop"
  /\ fpc' = [fpc EXCEPT ![f] = "getline"]
  /\ UNCHANGED <<mode, storeVars, cfgVars, mtx, thVars, histVars,
                 pumper_running, pumper_thread, fline, cin_fail>>

\* while (detail::pumper_running().load())
FeederLoop(f) ==
  /\ fpc[f] = "loop"
  /\ fpc' = [fpc EXCEPT ![f] = IF pumper_running THEN "getline" ELSE "exited"]
  /\ UNCHANGED <<mode, storeVars, cfgVars, mtx, thVars, histVars,
                 pumper_running, pumper_thread, fline, cin_fail>>

\* std::getline(std::cin, line) returns a line
FeederRead(f, l) ==
  /\ fpc[f] = "getline"
  /\ ~cin_fail
  /\ fline' = [fline EXCEPT ![f] = l]
  /\ fpc' = [fpc EXCEPT ![f] = "line"]
  /\ UNCHANGED <<mode, storeVars, cfgVars, mtx, thVars, histVars,
                 pumper_running, pumper_thread, cin_fail>>

\* std::getline fails (end of input, or the stream already failed): the
\* thread sleeps 10 ms and continues
FeederEof(f) ==
  /\ fpc[f] = "getline"
  /\ cin_fail' = TRUE
  /\ fline' = [fline EXCEPT ![f] = << >>]
  /\ fpc' = [fpc EXCEPT ![f] = "eofsleep"]
  /\ UNCHANGED <<mode, storeVars, cfgVars, mtx, thVars, histVars,
                 pumper_running, pumper_thread>>

\* the 10 ms sleep ends; continue
FeederWake(f) ==
  /\ fpc[f] = "eofsleep"
  /\ fpc' = [fpc EXCEPT ![f] = "loop"]
  /\ UNCHANGED <<mode, storeVars, cfgVars, mtx, thVars, histVars,
                 pumper_running, pumper_thread, fline, cin_fail>>

\* lock_guard lk(mtx()); tokenize_and_push_unlocked(line); back to the loop
FeederPush(f) ==
  /\ fpc[f] = "line"
  /\ mtx = NoThread
  /\ q' = TokenizeAndPush(q, fline[f])
  /\ pc' = Woken(pc)
  /\ fed' = TallyAll(fed, Words(fline[f], << >>, << >>))
  /\ fpc' = [fpc EXCEPT ![f] = "loop"]
  /\ UNCHANGED <<mode, bag, consumed, cfgVars, mtx, op, exp, remaining, misses, diag,
                 won, okLog, pumper_running, pumper_thread, fline, cin_fail>>

(* ----------------------- split: the line wait ------------------------- *)
(* faircmd_split::WaitForCommandLoose reads std::cin itself, a line at a   *)
(* time, and takes neither the mutex nor the bag.  Its two throws carry    *)
(* different messages: pc is "failed" after "line not entered" and         *)
(* "closed" after "stdin closed while waiting".                            *)

\* std::cerr << "[faircmd-split][ERROR] " << who << " expected line " << exp
\*           << " but it was not entered; giving up after "
\*           << default_fails().load() << " attempts"
SplitLineDiag(t) ==
  [exp |-> exp[t], fails |-> default_fails]

\* a line that holds the expected string as one of its words
LineMatches_word(l, e) == e \in Range(Words(l, << >>, << >>))

\* line == exp
LineMatches(l, e) == l = e

\* Entry: exp = expected; remaining = default_fails().load(); no lock.
BeginLine(t, e) ==
  /\ mode = "split"
  /\ pc[t] \in {"idle", "returned", "failed", "closed"}
  /\ default_fails <= MaxFails
  /\ op' = [op EXCEPT ![t] = "WaitForCommandLoose"]
  /\ exp' = [exp EXCEPT ![t] = e]
  /\ remaining' = [remaining EXCEPT ![t] = default_fails]
  /\ misses' = [misses EXCEPT ![t] = 0]
  /\ diag' = [diag EXCEPT ![t] = << >>]
  /\ pc' = [pc EXCEPT ![t] = "getline"]
  /\ UNCHANGED <<mode, storeVars, cfgVars, mtx, histVars, pumpVars>>

\* std::getline delivers line l: return on line == exp; otherwise
\* --remaining, and either the diagnostic and the throw, or the sleep/yield
\* and the next pass
SplitLineRead(t, l) ==
  /\ mode = "split"
  /\ op[t] = "WaitForCommandLoose"
  /\ pc[t] = "getline"
  /\ ~cin_fail
  /\ IF LineMatches(l, exp[t])
       THEN /\ pc' = [pc EXCEPT ![t] = "returned"]
            /\ UNCHANGED <<remaining, misses, diag>>
       ELSE /\ remaining' = [remaining EXCEPT ![t] = Decr(@)]
            /\ misses' = [misses EXCEPT ![t] = @ + 1]
            /\ IF Exhausted(Decr(remaining[t]))
                 THEN /\ diag' = [diag EXCEPT ![t] = Append(@, SplitLineDiag(t))]
                      /\ pc' = [pc EXCEPT ![t] = "failed"]
                 ELSE UNCHANGED <<diag, pc>>
  /\ UNCHANGED <<mode, storeVars, cfgVars, mtx, op, exp, histVars, pumpVars>>

\* std::getline fails: throw "stdin closed while waiting"
SplitLineEof(t) ==
  /\ mode = "split"
  /\ op[t] = "WaitForCommandLoose"
  /\ pc[t] = "getline"
  /\ cin_fail' = TRUE
  /\ pc' = [pc EXCEPT ![t] = "closed"]
  /\ UNCHANGED <<mode, storeVars, cfgVars, mtx, op, exp, remaining, misses, diag,
                 histVars, pumper_running, pumper_thread, fpc, fline>>

(* ------------------------ concurrent harness --------------------------- *)
(* The program configures the budget and the idle duration, as every       *)
(* example does before its first wait; from then on producer-side calls,   *)
(* from threads that are not modelled further, interleave freely with the  *)
(* waits of the consumer threads.                                          *)

ConcTokens == {TokA, TokB}

Init ==
  /\ InitCommon
  /\ stage = "set_fails"

CallSetDefaultFails ==
  /\ stage = "set_fails"
  /\ \E n \in 1..MaxBudget : SetDefaultFails(n)
  /\ stage' = "set_sleep"
  /\ UNCHANGED <<preloaded, calls>>

CallSetYieldSleep ==
  /\ stage = "set_sleep"
  /\ \E ms \in {0, 1} : SetYieldSleep(ms)
  /\ stage' = "free"
  /\ UNCHANGED <<preloaded, calls>>

CallReset ==
  /\ stage = "free"
  /\ Reset
  /\ UNCHANGED harnessVars

CallPreload ==
  /\ stage = "free"
  /\ Total(fed) + 2 <= MaxFed
  /\ \E items \in [1..2 -> ConcTokens] : Preload(items)
  /\ UNCHANGED harnessVars

CallPush ==
  /\ stage = "free"
  /\ Total(fed) + 1 <= MaxFed
  /\ \E tok \in ConcTokens : Push(tok)
  /\ UNCHANGED harnessVars

CallClearRecording ==
  /\ stage = "free"
  /\ ClearRecording
  /\ UNCHANGED harnessVars

CallWait ==
  /\ stage = "free"
  /\ \E t \in Threads, o \in WaitOps(mode), e \in ConcTokens : Begin(t, o, e)
  /\ UNCHANGED harnessVars

Next ==
  \/ CallSetDefaultFails
  \/ CallSetYieldSleep
  \/ CallReset
  \/ CallPreload
  \/ CallPush
  \/ CallClearRecording
  \/ CallWait
  \/ \E t \in Threads : WaitStep(t)

Spec == Init /\ [][Next]_vars

(* ------------------------ N consumers, N tokens ------------------------ *)
(* After the configuration, every consumer thread calls WaitForCommand     *)
(* once for the same token, and producers feed exactly as many occurrences *)
(* of it as there are consumers, before, between or after those calls.     *)

NConsumers == Cardinality(Threads)

NWait ==
  /\ stage = "free"
  /\ \E t \in Threads : pc[t] = "idle" /\ Begin(t, "WaitForCommand", TokA)
  /\ UNCHANGED harnessVars

NPush ==
  /\ stage = "free"
  /\ Total(fed) + 1 <= NConsumers
  /\ Push(TokA)
  /\ UNCHANGED harnessVars

NPreload ==
  /\ stage = "free"
  /\ Total(fed) + 2 <= NConsumers
  /\ Preload(<<TokA, TokA>>)
  /\ UNCHANGED harnessVars

\* Any step of thread t inside WaitForCommand.
StrictWaitStep(t) ==
  \/ Acquire(t)
  \/ Spurious(t)
  \/ MachineCheck(t)
  \/ SplitCheck(t)
  \/ HybridCheck(t)

NextN ==
  \/ CallSetDefaultFails
  \/ CallSetYieldSleep
  \/ NWait
  \/ NPush
  \/ NPreload
  \/ \E t \in Threads : StrictWaitStep(t)

SpecN == Init /\ [][NextN]_vars

(* ------------------------- pumper harness ------------------------------ *)
(* The hybrid backend with its stdin pumper: a controlling thread calls    *)
(* start_stdin_pumper() and stop_stdin_pumper() one after the other in any *)
(* order, the feeder threads run, and one consumer calls WaitForCommand.  *)

InitPump ==
  /\ InitCommon
  /\ mode = "hybrid"
  /\ stage = "set_fails"

\* Tokens of the lines read but not yet pushed.
InFlight ==
  LET held == {f \in Feeders : fpc[f] = "line"}
      n[S \in SUBSET Feeders] ==
        IF S = {} THEN 0
        ELSE LET f == CHOOSE x \in S : TRUE
             IN  Len(Words(fline[f], << >>, << >>)) + n[S \ {f}]
  IN  n[held]

PumpStart == stage = "free" /\ StartPumper /\ UNCHANGED harnessVars

PumpStop == stage = "free" /\ StopPumper /\ UNCHANGED harnessVars

PumpLoop == \E f \in Feeders : FeederLoop(f) /\ UNCHANGED harnessVars

PumpRead ==
  \E f \in Feeders, l \in Lines :
    /\ Total(fed) + InFlight + Len(Words(l, << >>, << >>)) <= MaxFed
    /\ FeederRead(f, l)
    /\ UNCHANGED harnessVars

PumpEof == \E f \in Feeders : FeederEof(f) /\ UNCHANGED harnessVars

PumpWake == \E f \in Feeders : FeederWake(f) /\ UNCHANGED harnessVars

PumpPush == \E f \in Feeders : FeederPush(f) /\ UNCHANGED harnessVars

\* The program's set_default_fails(1) before anything else.
PumpConfigure ==
  /\ stage = "set_fails"
  /\ SetDefaultFails(1)
  /\ stage' = "free"
  /\ UNCHANGED <<preloaded, calls>>

PumpWait ==
  /\ stage = "free"
  /\ Begin(Main, "WaitForCommand", TokA)
  /\ UNCHANGED harnessVars

HybridWaitStep(t) ==
  \/ Acquire(t)
  \/ Spurious(t)
  \/ HybridCheck(t)

NextPump ==
  \/ PumpConfigure
  \/ PumpStart
  \/ PumpStop
  \/ PumpLoop
  \/ PumpRead
  \/ PumpEof
  \/ PumpWake
  \/ PumpPush
  \/ PumpWait
  \/ HybridWaitStep(Main)

SpecPump == InitPump /\ [][NextPump]_vars

(* -------------------- producers, consumers, feeder --------------------- *)
(* After set_default_fails(1): consumer threads in their waits, single     *)
(* pushes, reset() and clear_recording(), and a controlling thread that    *)
(* starts and stops the stdin pumper; the feeder threads are alive but are *)
(* not scheduled.                                                          *)

NextFrame ==
  \/ PumpConfigure
  \/ CallReset
  \/ CallPush
  \/ CallClearRecording
  \/ CallWait
  \/ PumpStart
  \/ PumpStop
  \/ \E t \in Threads : WaitStep(t)

SpecFrame == Init /\ [][NextFrame]_vars

(* ------------------------ lifecycle harness ---------------------------- *)
(* The hybrid backend, one controlling thread that calls                   *)
(* start_stdin_pumper() and stop_stdin_pumper() in any order, and the      *)
(* feeder threads; calls records the calls made so far.                    *)

InitLife ==
  /\ InitCommon
  /\ mode = "hybrid"
  /\ stage = "free"

LifeStart ==
  /\ Len(calls) < MaxCalls
  /\ StartPumper
  /\ calls' = Append(calls, "start")
  /\ UNCHANGED <<stage, preloaded>>

LifeStop ==
  /\ Len(calls) < MaxCalls
  /\ StopPumper
  /\ calls' = Append(calls, "stop")
  /\ UNCHANGED <<stage, preloaded>>

NextLife ==
  \/ LifeStart
  \/ LifeStop
  \/ PumpLoop
  \/ PumpRead
  \/ PumpEof
  \/ PumpWake
  \/ PumpPush

SpecLife == InitLife /\ [][NextLife]_vars

\* The steps of feeder thread f that do not wait for input.
FeederRuns(f) ==
  /\ FeederLoop(f) \/ FeederWake(f) \/ FeederPush(f)
  /\ UNCHANGED harnessVars

\* A feeder thread that is not inside std::getline is scheduled; a read
\* returns only when the input has something to say.
FairLife ==
  /\ InitLife
  /\ [][NextLife]_vars
  /\ \A f \in Feeders : WF_vars(FeederRuns(f))

(* --------------------------- replay emitter ---------------------------- *)
(* A character is a one-letter string, or the name of a character that has *)
(* no letter: QUOTE is the double quote, BACKSLASH the backslash, LF, CR   *)
(* and TAB the escapes n, r and t, SOH the control character 1 and DEL the *)
(* control character 127.  A text is a sequence of characters.             *)

HexChars ==
  <<"0", "1", "2", "3", "4", "5", "6", "7", "8", "9",
    "a", "b", "c", "d", "e", "f">>

\* The byte of a character.
Code(ch) ==
  CASE ch = "QUOTE" -> 34
    [] ch = "BACKSLASH" -> 92
    [] ch = "LF" -> 10
    [] ch = "CR" -> 13
    [] ch = "TAB" -> 9
    [] ch = "SOH" -> 1
    [] ch = "DEL" -> 127
    [] ch = "g" -> 103
    [] ch = " " -> 32
    [] ch \in Range(SubSeq(HexChars, 1, 10)) ->
         47 + (CHOOSE i \in 1..10 : HexChars[i] = ch)
    [] ch \in Range(SubSeq(HexChars, 11, 16)) ->
         86 + (CHOOSE i \in 11..16 : HexChars[i] = ch)

RECURSIVE HexDigits(_)
\* o << std::hex << n, without padding
HexDigits(n) ==
  IF n < 16 THEN <<HexChars[n + 1]>>
  ELSE HexDigits(n \div 16) \o <<HexChars[(n % 16) + 1]>>

\* std::setw(w) << std::setfill('0'): pad on the left up to width w
PadLeft(txt, w) ==
  [i \in 1..(IF Len(txt) < w THEN w ELSE Len(txt)) |->
     IF Len(txt) < w /\ i <= w - Len(txt) THEN "0"
     ELSE txt[i - (IF Len(txt) < w THEN w - Len(txt) ELSE 0)]]

\* the switch of esc for one character c
EscChar(c) ==
  CASE c = "BACKSLASH" -> <<"BACKSLASH", "BACKSLASH">>
    [] c = "QUOTE" -> <<"BACKSLASH", "QUOTE">>
    [] c = "LF" -> <<"BACKSLASH", "n">>
    [] c = "CR" -> <<"BACKSLASH", "r">>
    [] c = "TAB" -> <<"BACKSLASH", "t">>
    [] OTHER ->
         IF Code(c) < 32 \/ Code(c) = 127
           THEN <<"BACKSLASH", "x">> \o PadLeft(HexDigits(Code(c)), 2)
           ELSE <<c>>

RECURSIVE EscBody(_)
EscBody(tok) ==
  IF tok = << >> THEN << >> ELSE EscChar(Head(tok)) \o EscBody(Tail(tok))

\* the lambda esc of emit_cpp: the token between double quotes, escaped
Esc(tok) == <<"QUOTE">> \o EscBody(tok) \o <<"QUOTE">>

RECURSIVE EmitList(_, _)
\* for (i = 0; i < H.size(); ++i) { if (i) out << ", "; out << esc(H[i]); }
EmitList(H, i) ==
  IF i > Len(H) THEN << >>
  ELSE (IF i > 1 THEN <<",", " ">> ELSE << >>) \o Esc(H[i]) \o EmitList(H, i + 1)

\* "faircmd_hybrid::preload({"
PreloadOpen ==
  <<"f", "a", "i", "r", "c", "m", "d", "_", "h", "y", "b", "r", "i", "d",
    ":", ":", "p", "r", "e", "l", "o", "a", "d", "(", "{">>

\* "});\n"
PreloadClose == <<"}", ")", ";", "LF">>

\* emit_cpp("preload") on the log H
EmitCpp(H) == PreloadOpen \o EmitList(H, 1) \o PreloadClose

(* --------------------------- replay harness ---------------------------- *)
(* The usage sketch of faircmd_hybrid.hpp: tokens are fed, one thread      *)
(* consumes them from the head, and the program writes emit_cpp("preload") *)
(* to std::cerr.                                                           *)

EmitChars == {"QUOTE", "BACKSLASH", "LF", "TAB", "SOH", "a"}

RECURSIVE TextLen(_)
\* Characters held by a store.
TextLen(store) ==
  IF store = << >> THEN 0 ELSE Len(Head(store)) + TextLen(Tail(store))

InitEmit ==
  /\ InitCommon
  /\ mode = "hybrid"
  /\ stage = "set_fails"

EmitPush ==
  /\ stage = "free"
  /\ Len(q) < MaxText
  /\ \E tok \in SeqsUpTo(EmitChars, MaxText - TextLen(q)) : Push(tok)
  /\ UNCHANGED harnessVars

EmitWait ==
  /\ stage \in {"free", "waits"}
  /\ pc[Main] \in {"idle", "returned"}
  /\ q # << >>
  /\ Begin(Main, "WaitForCommand", Head(q))
  /\ stage' = "waits"
  /\ UNCHANGED <<preloaded, calls>>

EmitWaitStep ==
  \/ Acquire(Main)
  \/ HybridCheck(Main)

\* std::string cpp = emit_cpp("preload"); std::cerr << cpp;
EmitReplay ==
  /\ stage \in {"free", "waits"}
  /\ pc[Main] \in {"idle", "returned"}
  /\ mtx = NoThread
  /\ diag' = [diag EXCEPT ![Main] = Append(@, EmitCpp(consumed))]
  /\ stage' = "emitted"
  /\ UNCHANGED <<mode, storeVars, cfgVars, mtx, pc, op, exp, remaining, misses,
                 histVars, pumpVars, preloaded, calls>>

NextEmit ==
  \/ PumpConfigure
  \/ EmitPush
  \/ EmitWait
  \/ EmitWaitStep
  \/ EmitReplay

SpecEmit == InitEmit /\ [][NextEmit]_vars

(* ------------------------ sequential harness --------------------------- *)
(* One thread runs the shape of tests/machine_fifo.cpp and                 *)
(* examples/machine_basic.cpp: reset(); set_default_fails(n);              *)
(* set_yield_sleep(ms); preload(s); then one wait after another.  A wait   *)
(* that throws ends the program (the tests do not catch).                  *)

InitSeq ==
  /\ InitCommon
  /\ stage = "reset"

SeqReset ==
  /\ stage = "reset"
  /\ Reset
  /\ stage' = "set_fails"
  /\ UNCHANGED <<preloaded, calls>>

SeqSetFails ==
  /\ stage = "set_fails"
  /\ \E n \in 0..MaxFails : SetDefaultFails(n)
  /\ stage' = "set_sleep"
  /\ UNCHANGED <<preloaded, calls>>

SeqSetSleep ==
  /\ stage = "set_sleep"
  /\ \E ms \in {0, 1} : SetYieldSleep(ms)
  /\ stage' = "preload"
  /\ UNCHANGED <<preloaded, calls>>

SeqPreload ==
  /\ stage = "preload"
  /\ \E s \in SeqsUpTo(Tokens, MaxLen) : Preload(s) /\ preloaded' = s
  /\ stage' = "waits"
  /\ UNCHANGED calls

SeqWait ==
  /\ stage = "waits"
  /\ Len(calls) < MaxWaits
  /\ pc[Main] \in {"idle", "returned"}
  /\ \E o \in WaitOps(mode), e \in Tokens :
       /\ Begin(Main, o, e)
       /\ calls' = Append(calls, [op |-> o, exp |-> e])
  /\ UNCHANGED <<stage, preloaded>>

NextSeq ==
  \/ SeqReset
  \/ SeqSetFails
  \/ SeqSetSleep
  \/ SeqPreload
  \/ SeqWait
  \/ WaitStep(Main)

SpecSeq == InitSeq /\ [][NextSeq]_vars

\* The same program with a single wait after the preload.
OneWait ==
  /\ calls = << >>
  /\ SeqWait

NextOne ==
  \/ SeqReset
  \/ SeqSetFails
  \/ SeqSetSleep
  \/ SeqPreload
  \/ OneWait
  \/ WaitStep(Main)

\* The scheduler keeps running a thread that is neither blocked on the
\* condition variable nor waiting for a held mutex.
FairOne ==
  /\ InitSeq
  /\ [][NextOne]_vars
  /\ WF_vars(Acquire(Main) \/ MachineCheck(Main) \/ SplitCheck(Main)
                \/ HybridCheck(Main) \/ LooseCheck(Main))

(* --------------------------- line harness ------------------------------ *)
(* The split backend on one thread: reset(), the two configuration calls,  *)
(* a preload, then line waits one after another.  preloaded holds the      *)
(* lines std::cin still has to deliver and calls the lines the current     *)
(* wait has read.                                                          *)

LineExpect == {TokA, TokB, << >>}

InitLine ==
  /\ InitCommon
  /\ mode = "split"
  /\ stage = "reset"

LinePreload ==
  /\ stage = "preload"
  /\ Preload(<<TokA, TokB>>)
  /\ stage' = "input"
  /\ UNCHANGED <<preloaded, calls>>

\* What will be typed: any lines, then the end of input.
LineInput ==
  /\ stage = "input"
  /\ preloaded' \in SeqsUpTo(Lines, MaxLen)
  /\ stage' = "waits"
  /\ UNCHANGED <<mode, storeVars, cfgVars, mtx, thVars, histVars, pumpVars,
                 calls>>

LineWait ==
  /\ stage = "waits"
  /\ \E e \in LineExpect : BeginLine(Main, e)
  /\ calls' = << >>
  /\ UNCHANGED <<stage, preloaded>>

LineRead ==
  /\ preloaded # << >>
  /\ SplitLineRead(Main, Head(preloaded))
  /\ preloaded' = Tail(preloaded)
  /\ calls' = Append(calls, Head(preloaded))
  /\ UNCHANGED stage

LineEof ==
  /\ preloaded = << >>
  /\ SplitLineEof(Main)
  /\ UNCHANGED harnessVars

NextLine ==
  \/ SeqReset
  \/ SeqSetFails
  \/ SeqSetSleep
  \/ LinePreload
  \/ LineInput
  \/ LineWait
  \/ LineRead
  \/ LineEof

SpecLine == InitLine /\ [][NextLine]_vars

\* The steps of the main thread that need no notification.
(* ------------------ configuration during a wait ------------------------ *)
(* One consumer thread waits, again and again; other threads push tokens,  *)
(* and call set_default_fails and set_yield_sleep at any moment, also      *)
(* while a wait is inside its loop.  calls holds the budget the latest     *)
(* wait read at its entry, stage whether a configuration call has run      *)
(* since that entry.                                                       *)

InitCfg ==
  /\ InitCommon
  /\ stage = "steady"

CfgSetFails ==
  /\ \E n \in 1..MaxBudget : n # default_fails /\ SetDefaultFails(n)
  /\ stage' = "changed"
  /\ UNCHANGED <<preloaded, calls>>

CfgSetSleep ==
  /\ \E ms \in {0, 1} : ms * NsPerMs # yield_ns /\ SetYieldSleep(ms)
  /\ stage' = "changed"
  /\ UNCHANGED <<preloaded, calls>>

CfgPush ==
  /\ Total(fed) + 1 <= MaxFed
  /\ \E tok \in ConcTokens : Push(tok)
  /\ UNCHANGED harnessVars

CfgWait ==
  /\ \E o \in WaitOps(mode), e \in ConcTokens : Begin(Main, o, e)
  /\ calls' = <<default_fails>>
  /\ stage' = "steady"
  /\ UNCHANGED preloaded

NextCfg ==
  \/ CfgSetFails
  \/ CfgSetSleep
  \/ CfgPush
  \/ CfgWait
  \/ WaitStep(Main)

SpecCfg == InitCfg /\ [][NextCfg]_vars

(* --------------------- producers and strict waits ---------------------- *)
(* After the configuration, producers call preload and push and consumer   *)
(* threads call WaitForCommand, in any interleaving, with reset() now and  *)
(* then.  preloaded is the history of what was fed since the last reset:   *)
(* the batches one after the other, in the order in which their calls held *)
(* the mutex.                                                              *)

FifoReset ==
  /\ stage = "free"
  /\ Reset
  /\ preloaded' = << >>
  /\ UNCHANGED <<stage, calls>>

FifoPreload ==
  /\ stage = "free"
  /\ \E items \in [1..2 -> ConcTokens] :
       /\ Len(preloaded) + Len(items) <= MaxLen
       /\ Preload(items)
       /\ preloaded' = preloaded \o items
  /\ UNCHANGED <<stage, calls>>

FifoPush ==
  /\ stage = "free"
  /\ Len(preloaded) + 1 <= MaxLen
  /\ \E tok \in ConcTokens : Push(tok) /\ preloaded' = Append(preloaded, tok)
  /\ UNCHANGED <<stage, calls>>

FifoWait ==
  /\ stage = "free"
  /\ \E t \in Threads, e \in ConcTokens : Begin(t, "WaitForCommand", e)
  /\ UNCHANGED harnessVars

NextFifo ==
  \/ CallSetDefaultFails
  \/ CallSetYieldSleep
  \/ FifoReset
  \/ FifoPreload
  \/ FifoPush
  \/ FifoWait
  \/ \E t \in Threads : StrictWaitStep(t)

SpecFifo == Init /\ [][NextFifo]_vars

(* ------------------ everything that takes the mutex -------------------- *)
(* Every backend with two consumer threads in strict or loose waits, the   *)
(* producers' reset() and push(), and, hybrid, one stdin feeder thread     *)
(* reading lines and appending their tokens.  The budget is set above 1,   *)
(* so that a failed attempt can be followed by a pause, and the idle       *)
(* duration to zero or not.                                                *)

LockSetFails ==
  /\ stage = "set_fails"
  /\ SetDefaultFails(MaxBudget)
  /\ stage' = "set_sleep"
  /\ UNCHANGED <<preloaded, calls>>

LockStart ==
  /\ stage = "free"
  /\ \A f \in Feeders : fpc[f] = "unborn"
  /\ StartPumper
  /\ UNCHANGED harnessVars

LockWait ==
  /\ stage = "free"
  /\ \E t \in Threads, o \in WaitOps(mode) : Begin(t, o, TokA)
  /\ UNCHANGED harnessVars

\* a producer pushes the token no wait expects
LockPush ==
  /\ stage = "free"
  /\ Total(fed) + 1 <= MaxFed
  /\ Push(TokB)
  /\ UNCHANGED harnessVars

NextLock ==
  \/ LockSetFails
  \/ CallSetYieldSleep
  \/ CallReset
  \/ LockPush
  \/ LockWait
  \/ LockStart
  \/ PumpLoop
  \/ PumpRead
  \/ PumpEof
  \/ PumpWake
  \/ PumpPush
  \/ \E t \in Threads : WaitStep(t)

SpecLock == Init /\ [][NextLock]_vars

MainRuns ==
  \/ Acquire(Main)
  \/ MachineCheck(Main)
  \/ SplitCheck(Main)
  \/ HybridCheck(Main)
  \/ LooseCheck(Main)

InCall(t) == pc[t] \in {"lock", "check", "sleep", "yield", "cvwait"}

StrictBackend == mode \in {"machine", "hybrid"}

\* Waits of the sequential harness that have returned.
SeqDone == IF pc[Main] = "returned" THEN Len(calls) ELSE Len(calls) - 1

(* --------------------- a push for a blocked wait ----------------------- *)
(* Idle duration 0.  One consumer thread waits, again and again; producers *)
(* push.  preloaded marks the push this is about: it holds the token of a  *)
(* push that found the consumer blocked on the condition variable, the     *)
(* store empty, and the token the one the consumer expects; the next wait  *)
(* clears it.  The scheduler keeps running a thread that is neither        *)
(* blocked on the condition variable nor waiting for a held mutex.         *)

WakeSetSleep ==
  /\ stage = "set_sleep"
  /\ SetYieldSleep(0)
  /\ stage' = "free"
  /\ UNCHANGED <<preloaded, calls>>

WakePush ==
  /\ stage = "free"
  /\ Total(fed) + 1 <= MaxFed
  /\ \E tok \in ConcTokens :
       /\ Push(tok)
       /\ preloaded' =
            IF pc[Main] = "cvwait" /\ q = << >> /\ tok = exp[Main]
              THEN <<tok>> ELSE preloaded
  /\ UNCHANGED <<stage, calls>>

WakeWait ==
  /\ stage = "free"
  /\ \E o \in WaitOps(mode), e \in ConcTokens : Begin(Main, o, e)
  /\ preloaded' = << >>
  /\ UNCHANGED <<stage, calls>>

NextWake ==
  \/ CallSetDefaultFails
  \/ WakeSetSleep
  \/ WakePush
  \/ WakeWait
  \/ WaitStep(Main)

FairWake == Init /\ [][NextWake]_vars /\ WF_vars(MainRuns)

(* ------------------------------- C1 ------------------------------------ *)

\* Thread t returns from its wait in this step.
Returns(t) == pc[t] # "returned" /\ pc'[t] = "returned"

C1_Step ==
  \A t \in Threads :
    (StrictBackend /\ op[t] = "WaitForCommand") =>
      /\ Returns(t) =>
           /\ q # << >>
           /\ Head(q) = exp[t]
           /\ q' = Tail(q)
      /\ (pc[t] = "check" /\ q # << >> /\ Head(q) # exp[t]) =>
           /\ pc'[t] \in {"check", "sleep", "yield", "failed"}
           /\ q' = q

\* C1: strict backends: WaitForCommand returns only in a step in which its
\* expected token is the head of the store, and that step removes the head
\* and nothing else; with another token at the head the check leaves the
\* store alone and does not return, wherever else the expected token may be.
C1_HeadOnly == [][C1_Step]_vars

\* One wait failed on TokB while TokA was in front of it, then another wait
\* took TokA from the head.
C1_Witness ==
  /\ StrictBackend
  /\ op = [t \in Threads |-> "WaitForCommand"]
  /\ default_fails = 1
  /\ pc["t2"] = "failed" /\ exp["t2"] = TokB /\ misses["t2"] = 1
  /\ pc["t1"] = "returned" /\ exp["t1"] = TokA
  /\ fed = (TokA :> 1) @@ (TokB :> 1)
  /\ won = (TokA :> 1)
  /\ q = <<TokB>>

(* ------------------------------- C2 ------------------------------------ *)

C2_InOrder ==
  /\ StrictBackend
  /\ stage = "waits"
  /\ calls # << >>
  /\ Len(calls) <= Len(preloaded)
  /\ \A i \in 1..Len(calls) :
       calls[i] = [op |-> "WaitForCommand", exp |-> preloaded[i]]

\* C2: strict backend, one consumer: after reset() and preload(s), the waits
\* for s[1], s[2], ... in that order never fail, never block and never miss a
\* head check; after i of them the store is s without its first i tokens, so
\* it is empty after the last.
C2_PreloadedOrderSucceeds ==
  C2_InOrder =>
    /\ pc[Main] \in {"lock", "check", "returned"}
    /\ misses[Main] = 0
    /\ q = SubSeq(preloaded, SeqDone + 1, Len(preloaded))

C2_Witness ==
  /\ C2_InOrder
  /\ preloaded = <<TokA, TokB, TokC>>
  /\ Len(calls) = 3
  /\ pc[Main] = "returned"
  /\ q = << >>

(* ------------------------------- C3 ------------------------------------ *)

\* The wait in progress (or just thrown) expects a token that is in the store
\* but not at its head; budget at least 1, idle duration 0.
C3_Case ==
  /\ StrictBackend
  /\ stage = "waits"
  /\ calls # << >>
  /\ calls[Len(calls)].op = "WaitForCommand"
  /\ pc[Main] \in {"lock", "check", "sleep", "yield", "cvwait", "failed"}
  /\ yield_ns = 0
  /\ default_fails >= 1
  /\ q # << >>
  /\ Head(q) # exp[Main]
  /\ exp[Main] \in Range(q)

C3_Counts ==
  C3_Case =>
    /\ pc[Main] # "cvwait"
    /\ remaining[Main] = default_fails - misses[Main]
    /\ (pc[Main] = "failed") <=> (misses[Main] = default_fails)

\* C3: strict backend, budget n >= 1, idle duration 0, nobody else feeding or
\* consuming: a wait for a token that is in the store but not at the head
\* eventually throws, and it throws at its n-th mismatching head check, not
\* before and not after.
C3_FailsAtNthMismatch ==
  /\ []C3_Counts
  /\ (C3_Case /\ pc[Main] # "failed")
       ~> (C3_Case /\ pc[Main] = "failed" /\ misses[Main] = default_fails)

C3_Witness ==
  /\ C3_Case
  /\ pc[Main] = "failed"
  /\ default_fails = 3
  /\ misses[Main] = 3
  /\ q = <<TokA, TokB, TokC>>
  /\ exp[Main] = TokB

(* ------------------------------- C4 ------------------------------------ *)

\* "go", "promote", "stop" are three distinct tokens, here TokA, TokB, TokC:
\* reset(); set_default_fails(5); set_yield_sleep(0);
\* preload({go, promote, stop}); the three waits have returned and the
\* fourth wait, for go, has been called.
C4_Scenario ==
  /\ StrictBackend
  /\ stage = "waits"
  /\ default_fails = 5
  /\ yield_ns = 0
  /\ preloaded = <<TokA, TokB, TokC>>
  /\ calls = [i \in 1..4 |->
               [op |-> "WaitForCommand", exp |-> <<TokA, TokB, TokC, TokA>>[i]]]

\* C4 as stated: the fourth wait ends in a failure rather than blocking, so
\* until it has failed the thread can always take a step of its own.
C4_Original ==
  C4_Scenario => (pc[Main] = "failed" \/ ENABLED MainRuns)

\* C4 as amended: the fourth wait finds the store empty and neither fails nor
\* returns; it blocks on the condition variable and no attempt is consumed.
C4_EmptyStoreBlocks ==
  C4_Scenario =>
    /\ pc[Main] \in {"lock", "check", "cvwait"}
    /\ remaining[Main] = 5
    /\ misses[Main] = 0
    /\ q = << >>

C4_Witness ==
  /\ C4_Scenario
  /\ pc[Main] = "cvwait"
  /\ mtx = NoThread

(* ------------------------------- C5 ------------------------------------ *)

C5_AllFor(T) ==
  /\ mode = "split"
  /\ stage = "waits"
  /\ calls # << >>
  /\ \A i \in 1..Len(calls) : calls[i].exp = T

\* A pass of the split wait succeeds iff the count of its token is positive,
\* and then takes exactly one occurrence of that token; a pass that does not
\* succeed leaves the bag alone and uses up one attempt.
C5_Step ==
  (mode = "split" /\ pc[Main] = "check") =>
    /\ (pc'[Main] = "returned") <=> (Times(bag, exp[Main]) > 0)
    /\ pc'[Main] = "returned" =>
         \A T \in Tokens :
           Times(bag', T) = Times(bag, T) - (IF T = exp[Main] THEN 1 ELSE 0)
    /\ pc'[Main] # "returned" =>
         /\ bag' = bag
         /\ remaining'[Main] = remaining[Main] - 1
         /\ (pc'[Main] = "failed") <=> (remaining'[Main] <= 0)
         /\ pc'[Main] \in {"failed", "sleep", "yield"}

C5_Tally(T) ==
  C5_AllFor(T) =>
    /\ Len(calls) <= Count(preloaded, T) + 1
    /\ pc[Main] = "returned" => Len(calls) <= Count(preloaded, T)
    /\ pc[Main] = "failed" =>
         (Len(calls) = Count(preloaded, T) + 1 /\ remaining[Main] <= 0)
    /\ pc[Main] \in {"lock", "check", "sleep", "yield"} => ENABLED MainRuns

\* C5: presence backend: a wait succeeds iff its token's count is positive at
\* the check, and success takes one occurrence of that token and nothing
\* else; so after preloading k occurrences of T, in any order among other
\* tokens, the first k waits for T return and the (k+1)-th, never blocked,
\* throws when its budget is used up.
C5_PresenceCounts ==
  /\ [][C5_Step]_vars
  /\ [](\A T \in Tokens : C5_Tally(T))

C5_Witness ==
  /\ C5_AllFor(TokA)
  /\ preloaded = <<TokA, TokB, TokA>>
  /\ Len(calls) = 3
  /\ pc[Main] = "failed"
  /\ bag = (TokB :> 1)

(* ------------------------------- C6 ------------------------------------ *)

\* The position of the first occurrence of e in a store that holds it.
FirstAt(store, e) ==
  CHOOSE k \in 1..Len(store) :
    store[k] = e /\ \A j \in 1..(k - 1) : store[j] # e

C6_Step ==
  (/\ mode = "hybrid"
   /\ op[Main] = "WaitForCommandLoose"
   /\ pc[Main] = "check"
   /\ exp[Main] \in Range(q)) =>
     /\ pc'[Main] = "returned"
     /\ q' = SubSeq(q, FirstAt(q, exp[Main]) + 1, Len(q))
     /\ consumed' = Append(consumed, exp[Main])

\* C6: hybrid WaitForCommandLoose on a store that holds the expected token:
\* the check returns, the store keeps exactly the tokens after the first
\* occurrence of the expected token, in their order, and the consumption log
\* grows by one entry, the expected token.
C6_LooseErasesThroughFirst == [][C6_Step]_vars

\* preload({a, b, c}); WaitForCommandLoose(b) has returned: a was discarded,
\* c stays, the log holds b only.
C6_Witness ==
  /\ mode = "hybrid"
  /\ preloaded = <<TokA, TokB, TokC>>
  /\ calls = <<[op |-> "WaitForCommandLoose", exp |-> TokB]>>
  /\ pc[Main] = "returned"
  /\ q = <<TokC>>
  /\ consumed = <<TokB>>

(* ------------------------------- C7 ------------------------------------ *)

C7_Step ==
  mode = "hybrid" =>
    \/ consumed' = consumed
    \/ /\ consumed' = << >>
       /\ \A t \in Threads : ~Returns(t)
       /\ q' \in {q, << >>}
    \/ \E t \in Threads :
         /\ Returns(t)
         /\ \A u \in Threads \ {t} : ~Returns(u)
         /\ consumed' = Append(consumed, exp[t])
         /\ Len(q') < Len(q)

C7_Quiet ==
  mode = "hybrid" =>
    /\ Len(q') > Len(q) => consumed' = consumed
    /\ \A t \in Threads :
         /\ (pc[t] # "failed" /\ pc'[t] = "failed") => consumed' = consumed
         /\ Returns(t) => Len(consumed') = Len(consumed) + 1

\* C7: hybrid: the consumption log is always the expected tokens of the waits
\* that returned since the last reset() or clear_recording(), in the order
\* they returned; a returning wait appends its one entry in the step that
\* removes from the store; feeding, a failing wait and the tokens a loose
\* wait discards leave the log alone.
C7_LogIsSuccesses ==
  /\ [](mode = "hybrid" => consumed = okLog)
  /\ [][C7_Step /\ C7_Quiet]_vars

\* A loose wait for TokB discarded TokA: the log holds TokB only.
C7_Witness ==
  /\ mode = "hybrid"
  /\ fed = (TokA :> 1) @@ (TokB :> 1)
  /\ won = (TokB :> 1)
  /\ q = << >>
  /\ consumed = <<TokB>>
  /\ \E t \in Threads : pc[t] = "returned" /\ op[t] = "WaitForCommandLoose"

(* ------------------------------- C8 ------------------------------------ *)

\* C8: every backend, every interleaving: each of the N consumer threads
\* calls WaitForCommand(T) once and producers feed N occurrences of T, before,
\* between or after those calls: no wait fails, and once the N occurrences
\* are fed and no wait is in progress every consumer has returned and the
\* store is empty.
C8_AllSucceed ==
  /\ \A t \in Threads : pc[t] # "failed"
  /\ (/\ Total(fed) = NConsumers
      /\ \A t \in Threads : pc[t] # "idle" /\ ~InCall(t)) =>
        /\ \A t \in Threads : pc[t] = "returned"
        /\ Times(won, TokA) = NConsumers
        /\ q = << >>
        /\ bag = EmptyBag

(* ------------------------------- C9 ------------------------------------ *)

C9_Step ==
  \A t \in Threads :
    Returns(t) =>
      \A u \in Threads \ {t} :
        /\ ~Returns(u)
        /\ InCall(u) => (InCall(u))'
        /\ remaining'[u] = remaining[u]

\* C9: every backend: the waits for T that have returned since the last
\* reset never outnumber the occurrences of T fed since then; a step in
\* which one thread's wait returns lets no other wait return, and every
\* other thread that is in a wait stays in it with its budget untouched.
C9_NoDoubleConsume ==
  /\ [](\A T \in ConcTokens : Times(won, T) <= Times(fed, T))
  /\ [][C9_Step]_vars

\* Both threads wait for TokA, one occurrence was fed: one has returned on
\* it, the other is still in its wait.
C9_Witness ==
  /\ exp = [t \in Threads |-> TokA]
  /\ op = [t \in Threads |-> "WaitForCommand"]
  /\ fed = (TokA :> 1)
  /\ won = (TokA :> 1)
  /\ \E t \in Threads :
       /\ pc[t] = "returned"
       /\ \A u \in Threads \ {t} : InCall(u) /\ misses[u] = 0

(* ------------------------------- C10 ----------------------------------- *)

\* Feeder thread f is alive and can still read a line and push its tokens:
\* it is inside std::getline, holds a line to push, or is about to test a
\* running flag that is set.
AbleToFeed(f) ==
  \/ fpc[f] \in {"getline", "line"}
  \/ fpc[f] \in {"loop", "eofsleep"} /\ pumper_running

\* C10: across any sequence of start_stdin_pumper() and stop_stdin_pumper()
\* calls, at most one feeder thread that can still read input and feed the
\* store is alive.
C10_AtMostOneFeeder ==
  Cardinality({f \in Feeders : AbleToFeed(f)}) <= 1

(* ------------------------------- C11 ----------------------------------- *)

\* Feeder threads that have been created.
Spawned == {f \in Feeders : fpc[f] # "unborn"}

\* The i-th lifecycle call is a start that does not directly follow a start.
FirstOfStarts(i) ==
  calls[i] = "start" /\ (i = 1 \/ calls[i - 1] = "stop")

C11_State ==
  /\ pumper_running <=> (calls # << >> /\ calls[Len(calls)] = "start")
  /\ (pumper_thread = 0) <=> ~pumper_running
  /\ Cardinality(Spawned) =
       Cardinality({i \in 1..Len(calls) : FirstOfStarts(i)})
  /\ pumper_running =>
       (pumper_thread \in Spawned /\ \A f \in Spawned : f <= pumper_thread)

\* A call that repeats the call before it changes nothing.
C11_Step ==
  (/\ calls # << >>
   /\ calls' # calls
   /\ calls'[Len(calls')] = calls[Len(calls)]) =>
     UNCHANGED <<mode, storeVars, cfgVars, mtx, thVars, histVars, pumpVars,
                 stage, preloaded>>

\* C11: start_stdin_pumper() sets the running flag and spawns one thread only
\* when the flag was clear; stop_stdin_pumper() clears the flag and releases
\* the handle; a start right after a start and a stop right after a stop
\* change nothing, so each pair leaves the state one call leaves.
C11_Idempotent ==
  /\ []C11_State
  /\ [][C11_Step]_vars

\* start; start; stop; stop: one thread was ever spawned, flag clear, handle
\* released.
C11_Witness ==
  /\ calls = <<"start", "start", "stop", "stop">>
  /\ Cardinality(Spawned) = 1
  /\ ~pumper_running
  /\ pumper_thread = 0

(* ------------------------------- C12 ----------------------------------- *)

\* A step taken while the running flag is clear.
C12_Step ==
  ~pumper_running =>
    /\ \A f \in Feeders :
         /\ fpc'[f] = "getline" => fpc[f] = "getline"
         /\ fpc[f] = "loop" => fpc'[f] \in {"loop", "exited"}
         /\ fpc[f] = "exited" => fpc'[f] = "exited"
    /\ q' # q =>
         \E f \in Feeders :
           /\ fpc[f] = "line"
           /\ fpc'[f] = "loop"
           /\ q' = q \o Words(fline[f], << >>, << >>)

\* C12: while the running flag stays clear after stop_stdin_pumper(), no
\* feeder thread starts a read; the store grows only by the tokens of a line
\* a thread had already read or was reading, after which that thread is at
\* the loop test, from where it can only exit; and a thread that is not
\* inside a read does exit unless a later start sets the flag again.
C12_StoppedFeederDrains ==
  /\ [][C12_Step]_vars
  /\ \A f \in Feeders :
       (~pumper_running /\ fpc[f] \in {"loop", "line", "eofsleep"})
         ~> (fpc[f] = "exited" \/ pumper_running)

\* start; stop, and the one thread holds the line "a" whose read was in
\* flight: it is still to be pushed.
C12_Witness ==
  /\ calls = <<"start", "stop">>
  /\ ~pumper_running
  /\ fpc[1] = "line"
  /\ fline[1] = <<"a">>
  /\ q = << >>

(* ------------------------------- C13 ----------------------------------- *)

\* What a step that is a reset() leaves behind.
C13_Step ==
  CallReset =>
    /\ q' = << >>
    /\ bag' = EmptyBag
    /\ consumed' = << >>
    /\ default_fails' = default_fails
    /\ yield_ns' = yield_ns
    /\ pumper_running' = pumper_running
    /\ pumper_thread' = pumper_thread
    /\ fpc' = fpc
    /\ \A t \in Threads :
         /\ pc'[t] = (IF pc[t] = "cvwait" THEN "lock" ELSE pc[t])
         /\ remaining'[t] = remaining[t]
         /\ exp'[t] = exp[t]

\* The re-check of a woken waiter that finds the ordered store still empty.
C13_Recheck ==
  \A t \in Threads :
    (mode # "split" /\ pc[t] = "check" /\ q = << >>) =>
      /\ pc'[t] \in {"check", "cvwait", "sleep"}
      /\ remaining'[t] = remaining[t]

\* reset() has no failure path: with the mutex free it can run.
C13_CanRun ==
  (stage = "free" /\ mtx = NoThread) => ENABLED CallReset

\* C13: reset() in every backend leaves the store empty and the hybrid log
\* empty whatever was queued and whoever is blocked; it cannot fail; fail
\* budget, idle duration and the feeder's flag, handle and threads are as
\* before; no waiter returns or fails in that step: a blocked waiter is woken
\* to re-check, and re-checking an empty store it goes back to waiting with
\* its budget unchanged.
C13_ResetFrame ==
  /\ [][C13_Step /\ C13_Recheck]_vars
  /\ []C13_CanRun

\* Hybrid, pumper running: a reset came after a wait had returned (nothing
\* counts as fed any more), and the other thread is blocked again on the
\* empty store with its budget intact.
C13_Witness ==
  /\ mode = "hybrid"
  /\ pumper_running
  /\ q = << >>
  /\ consumed = << >>
  /\ fed = << >>
  /\ pc["t1"] = "returned"
  /\ pc["t2"] = "cvwait"
  /\ remaining["t2"] = default_fails

(* ------------------------------- C14 ----------------------------------- *)

C14_Step ==
  CallClearRecording =>
    /\ consumed' = << >>
    /\ SnapshotConsumed(consumed') = << >>
    /\ q' = q
    /\ bag' = bag
    /\ default_fails' = default_fails
    /\ yield_ns' = yield_ns
    /\ pumper_running' = pumper_running
    /\ pumper_thread' = pumper_thread
    /\ fpc' = fpc
    /\ fline' = fline
    /\ pc' = pc
    /\ remaining' = remaining

\* C14: hybrid clear_recording() empties the consumption log and nothing
\* else: the ordered store holds the same tokens in the same order, budget,
\* idle duration and feeder state are as before, no waiter is affected, and
\* a snapshot_consumed() taken on the state it leaves is the empty list.
C14_ClearLogOnly == [][C14_Step]_vars

\* TokA was consumed (it still counts as won), the log has been cleared
\* since, and TokB is still queued; the pumper is running.
C14_Witness ==
  /\ mode = "hybrid"
  /\ pumper_running
  /\ fed = (TokA :> 1) @@ (TokB :> 1)
  /\ won = (TokA :> 1)
  /\ consumed = << >>
  /\ SnapshotConsumed(consumed) = << >>
  /\ q = <<TokB>>

(* ------------------------------- C15 ----------------------------------- *)

\* C15: every backend, every wait: a wait that has failed has not returned,
\* and by the time the failure is raised a diagnostic record that names the
\* expected token has been written to std::cerr by that call.
C15_DiagBeforeRaise ==
  \A t \in Threads :
    pc[t] = "failed" =>
      /\ diag[t] # << >>
      /\ \A i \in 1..Len(diag[t]) : diag[t][i].exp = exp[t]

(* ------------------------------- C16 ----------------------------------- *)

RECURSIVE CReadHex(_, _, _)
\* A hexadecimal escape sequence takes every hexadecimal digit that follows.
CReadHex(txt, i, v) ==
  IF i <= Len(txt) /\ txt[i] \in Range(HexChars)
    THEN CReadHex(txt, i + 1,
                  16 * v + (CHOOSE k \in 1..16 : HexChars[k] = txt[i]) - 1)
    ELSE [val |-> v, next |-> i]

RECURSIVE CParseStr(_, _, _, _)
RECURSIVE CParseList(_, _, _)
\* Inside a string literal: the bytes it denotes under the escape rules of C.
CParseStr(txt, i, cur, acc) ==
  IF i > Len(txt) THEN Append(acc, cur)
  ELSE IF txt[i] = "QUOTE" THEN CParseList(txt, i + 1, Append(acc, cur))
  ELSE IF txt[i] = "BACKSLASH" /\ i < Len(txt) THEN
    LET e == txt[i + 1]
    IN  CASE e = "n" -> CParseStr(txt, i + 2, Append(cur, 10), acc)
          [] e = "r" -> CParseStr(txt, i + 2, Append(cur, 13), acc)
          [] e = "t" -> CParseStr(txt, i + 2, Append(cur, 9), acc)
          [] e = "x" ->
               LET h == CReadHex(txt, i + 2, 0)
               IN  CParseStr(txt, h.next, Append(cur, h.val), acc)
          [] OTHER -> CParseStr(txt, i + 2, Append(cur, Code(e)), acc)
  ELSE CParseStr(txt, i + 1, Append(cur, Code(txt[i])), acc)

\* Between the literals of a braced list: up to the closing brace.
CParseList(txt, i, acc) ==
  IF i > Len(txt) \/ txt[i] = "}" THEN acc
  ELSE IF txt[i] = "QUOTE" THEN CParseStr(txt, i + 1, << >>, acc)
  ELSE CParseList(txt, i + 1, acc)

\* The bytes of a token.
Bytes(tok) == [i \in 1..Len(tok) |-> Code(tok[i])]

\* C16: the text emit_cpp("preload") produces for the consumption log,
\* read back as a braced list of C string literals, is the log: as many
\* tokens, the same bytes, the same order.
C16_RoundTrip ==
  stage = "emitted" =>
    CParseList(diag[Main][1], Len(PreloadOpen) + 1, << >>) =
      [i \in 1..Len(consumed) |-> Bytes(consumed[i])]

(* ------------------------------- C17 ----------------------------------- *)

\* The attempts a budget allows: a budget below 1 still allows one.
Attempts(n) == IF n < 1 THEN 1 ELSE n

C17_Outcome ==
  (mode = "split" /\ op[Main] = "WaitForCommandLoose") =>
    /\ pc[Main] = "returned" =>
         /\ calls # << >>
         /\ calls[Len(calls)] = exp[Main]
         /\ \A i \in 1..(Len(calls) - 1) : calls[i] # exp[Main]
         /\ Len(calls) - 1 < Attempts(default_fails)
    /\ pc[Main] = "failed" =>
         /\ \A i \in 1..Len(calls) : calls[i] # exp[Main]
         /\ Len(calls) = Attempts(default_fails)
         /\ diag[Main] = <<SplitLineDiag(Main)>>
    /\ pc[Main] = "closed" =>
         /\ \A i \in 1..Len(calls) : calls[i] # exp[Main]
         /\ Len(calls) < Attempts(default_fails)
         /\ preloaded = << >>
         /\ cin_fail
    /\ pc[Main] = "getline" =>
         /\ \A i \in 1..Len(calls) : calls[i] # exp[Main]
         /\ Len(calls) < Attempts(default_fails)
    /\ misses[Main] = Cardinality({i \in 1..Len(calls) : calls[i] # exp[Main]})
    /\ bag = (TokA :> 1) @@ (TokB :> 1)
    /\ mtx = NoThread

\* C17: split WaitForCommandLoose returns exactly when it reads a line equal
\* to the expected string, having read fewer non-matching lines than the
\* budget before it; it throws "line not entered" at the budget's worth of
\* non-matching lines, and the different "stdin closed while waiting" when
\* the input ends before that; the bag and the mutex are never touched.
C17_LineWait ==
  /\ []C17_Outcome
  /\ [][(pc[Main] = "getline") => (bag' = bag /\ mtx' = mtx)]_vars

\* Budget 2, the input is the one line " b" and then ends: the wait for "b"
\* does not take " b" for its token and throws "stdin closed".
C17_Witness ==
  /\ mode = "split"
  /\ op[Main] = "WaitForCommandLoose"
  /\ pc[Main] = "closed"
  /\ exp[Main] = TokB
  /\ default_fails = 2
  /\ calls = << <<" ", "b">> >>
  /\ remaining[Main] = 1
  /\ bag = (TokA :> 1) @@ (TokB :> 1)

(* ------------------------------- C18 ----------------------------------- *)

\* C18: all backends, every wait: polling an empty store costs no attempt.
\* In the sequential program with an empty preload the store is empty for
\* good, so a wait never fails and its budget stays full.
C18_EmptyKeepsBudget ==
  (stage = "waits" /\ preloaded = << >> /\ calls # << >>) =>
    /\ pc[Main] # "failed"
    /\ misses[Main] = 0
    /\ remaining[Main] = default_fails

(* ------------------------------- C19 ----------------------------------- *)

\* The budget the wait in progress (or just ended) read at its entry.
EntryBudget == calls[1]

\* The statement as made, for the ordered backends: each failed attempt is
\* judged against the budget configured at that moment, so the wait gives up
\* at that attempt exactly when its failed attempts have reached the current
\* budget; and the idle of a poll that found the store empty follows the
\* current idle duration.
C19_FreshStep ==
  /\ (StrictBackend /\ pc[Main] = "check"
        /\ misses'[Main] = misses[Main] + 1) =>
       ((pc'[Main] = "failed") <=> (misses'[Main] >= default_fails))
  /\ (mode = "hybrid" /\ pc[Main] = "check" /\ pc'[Main] # "check"
        /\ q = << >>) =>
       pc'[Main] = (IF yield_ns > 0 THEN "sleep" ELSE "cvwait")

\* C19 as stated: after set_default_fails(n) or set_yield_sleep(d) during a
\* wait, the wait's further polls use the new values, for the number of
\* failed attempts it still tolerates as for its idle pacing.
C19_FreshRead == [][C19_FreshStep]_vars

\* The budget is fixed at entry: the wait has exactly its entry budget less
\* its failed attempts left, is in its loop while that is positive and has
\* thrown once it is not, whatever default_fails() holds now.
C19_Fixed ==
  (calls # << >> /\ pc[Main] # "idle") =>
    /\ remaining[Main] = EntryBudget - misses[Main]
    /\ InCall(Main) => misses[Main] < EntryBudget
    /\ pc[Main] = "failed" => misses[Main] = EntryBudget

\* A configuration call leaves the wait where it is, with its budget; the
\* pause after a poll is chosen by the idle duration current at that poll:
\* hybrid on an empty store sleeps or blocks; machine and split after a
\* failed attempt sleep or yield; hybrid after a failed attempt sleeps 1 ms.
C19_Step ==
  /\ (default_fails' # default_fails \/ yield_ns' # yield_ns) =>
       /\ remaining' = remaining
       /\ misses' = misses
       /\ pc' = pc
  /\ (mode = "hybrid" /\ pc[Main] = "check" /\ pc'[Main] # "check"
        /\ q = << >>) =>
       pc'[Main] = (IF yield_ns > 0 THEN "sleep" ELSE "cvwait")
  /\ (pc[Main] = "check" /\ misses'[Main] = misses[Main] + 1
        /\ pc'[Main] # "failed") =>
       pc'[Main] = (IF mode = "hybrid" \/ yield_ns > 0 THEN "sleep" ELSE "yield")

\* C19, amended: a configuration call made while a wait is inside its loop
\* changes that wait's idle pacing only, which is read again on every pass
\* (the hybrid backoff after a failed attempt is a fixed 1 ms); the number of
\* failed attempts the wait tolerates is the budget it read when it started.
C19_BudgetFixedPaceFresh == [](C19_Fixed) /\ [][C19_Step]_vars

\* A wait that started with budget 2 has thrown after its second failed
\* attempt, with the budget lowered by a call made during the wait.
C19_Witness ==
  /\ stage = "changed"
  /\ calls = <<2>>
  /\ default_fails = 1
  /\ pc[Main] = "failed"
  /\ misses[Main] = 2

(* ------------------------------- C20 ----------------------------------- *)

\* C20: strict backends, any producers and consumers: at every moment since
\* the last reset, the tokens the successful waits consumed, in the order of
\* their returns, followed by the store, are the fed batches one after the
\* other in the order their preload and push calls held the mutex; so the
\* tokens of one preload stay together, in argument order.
C20_Fifo ==
  StrictBackend =>
    /\ okLog \o q = preloaded
    /\ mode = "hybrid" => consumed = okLog

\* Three tokens were fed, some of them are consumed and some still stored.
C20_Witness ==
  /\ StrictBackend
  /\ Len(preloaded) = MaxLen
  /\ okLog # << >>
  /\ q # << >>
  /\ TokA \in Range(preloaded)
  /\ TokB \in Range(preloaded)

(* ------------------------------- C21 ----------------------------------- *)

\* C21: presence backend, after any resets, preloads, pushes and waits that
\* returned or threw, from any threads: every key of the bag has a count of
\* at least 1, and every token's count is its occurrences fed less the
\* successful waits for it since the last reset.
C21_BagCounts ==
  mode = "split" =>
    /\ \A k \in DOMAIN bag : bag[k] >= 1
    /\ DOMAIN bag \subseteq Tokens
    /\ \A T \in Tokens : Times(bag, T) = Times(fed, T) - Times(won, T)

\* One token's entry is gone with its last occurrence taken, another token
\* is still there, and a wait has thrown.
C21_Witness ==
  /\ mode = "split"
  /\ \E T \in Tokens : Times(won, T) >= 1 /\ T \notin DOMAIN bag
  /\ bag # EmptyBag
  /\ \E t \in Threads : pc[t] = "failed"

(* ------------------------------- C22 ----------------------------------- *)

\* A thread is at a match check exactly while it holds the mutex, so it
\* holds nothing while it sleeps, yields, blocks on the condition variable
\* or waits for the mutex; the holder can always take its next step; and
\* with the mutex free a producer's call can run.
C22_Held ==
  /\ mtx \in Threads \cup {NoThread}
  /\ \A t \in Threads : (pc[t] = "check") <=> (mtx = t)
  /\ mtx # NoThread => ENABLED WaitStep(mtx)
  /\ (mtx = NoThread /\ stage = "free") => ENABLED CallReset

\* The store and the log change only in a step of the thread that holds the
\* mutex at a check, or in a producer's or the feeder's call that takes the
\* free mutex and gives it back; the holder's step gives the mutex up, and
\* until then nothing takes it over.
C22_Step ==
  /\ (q' # q \/ bag' # bag \/ consumed' # consumed) =>
       \/ mtx = NoThread /\ mtx' = NoThread
       \/ \E t \in Threads :
            mtx = t /\ pc[t] = "check" /\ pc'[t] # "check" /\ mtx' = NoThread
  /\ mtx # NoThread =>
       \/ mtx' = NoThread /\ pc'[mtx] # "check"
       \/ mtx' = mtx /\ pc'[mtx] = pc[mtx] /\ UNCHANGED storeVars

\* C22: every backend: the store is changed and matched only under the one
\* mutex, and no thread holds it while it sleeps, yields or blocks; so the
\* mutex is always given up by its holder's next step, and reset, push and
\* the feeder's append run whenever it is free, however many consumers are
\* blocked or retrying.
C22_LockDiscipline == [](C22_Held) /\ [][C22_Step]_vars

\* Hybrid: one consumer is blocked on the condition variable, the other is
\* pausing after a failed attempt, the feeder has a line to append, and the
\* mutex is free.
C22_Witness ==
  /\ mode = "hybrid"
  /\ mtx = NoThread
  /\ \E t, u \in Threads : pc[t] = "cvwait" /\ pc[u] = "sleep" /\ misses[u] > 0
  /\ \E f \in Feeders : fpc[f] = "line"

(* ------------------------------- C23 ----------------------------------- *)

\* C23: machine and hybrid, idle duration 0, fair scheduling: a consumer
\* blocked in a wait for T on an empty store, for which a producer then
\* pushes T to the head, with no other consumer around, eventually returns
\* successfully: the notification is never lost.
C23_NoLostWakeup ==
  (StrictBackend /\ preloaded # << >>) ~> (pc[Main] = "returned")

\* The consumer was blocked on the empty store, the token it expects was
\* pushed, and its wait has returned with that token.
C23_Witness ==
  /\ StrictBackend
  /\ yield_ns = 0
  /\ preloaded = <<exp[Main]>>
  /\ pc[Main] = "returned"
  /\ okLog # << >>
  /\ okLog[Len(okLog)] = exp[Main]

(* ------------------------------- C24 ----------------------------------- *)

\* A pass of a wait that does not return, the one that throws included,
\* leaves the store, the bag and the consumption log as they were.
C24_Step ==
  \A t \in Threads :
    (pc[t] = "check" /\ pc'[t] \notin {"check", "returned"}) =>
      /\ q' = q
      /\ bag' = bag
      /\ consumed' = consumed
      /\ won' = won
      /\ (pc'[t] = "failed" => remaining'[t] <= 0)

\* C24: every backend, strict and loose waits: a wait that throws on an
\* exhausted budget leaves the token store and the hybrid log exactly as
\* they were at its last check, and none of its earlier unsuccessful polls
\* removed or recorded anything: a failed loose wait has discarded nothing.
C24_FailedWaitChangesNothing == [][C24_Step]_vars

\* A hybrid loose wait has thrown after two failed attempts on a store that
\* holds other tokens only, which are still there.
C24_Witness ==
  /\ mode = "hybrid"
  /\ \E t \in Threads :
       /\ op[t] = "WaitForCommandLoose"
       /\ pc[t] = "failed"
       /\ misses[t] = 2
       /\ q # << >>
       /\ exp[t] \notin Range(q)

====
